---------------------------- MODULE Spec2Model ----------------------------
(***************************************************************************)
(* Model of the audit-checklist dashboard (src/auditoria_app.py).          *)
(*                                                                         *)
(* The persistent state is the SQLite file auditoria.db (tables users,     *)
(* checklist_items, checklist_results), the directory backups/ and the     *)
(* log file; the volatile state is the Streamlit session.                  *)
(*                                                                         *)
(* Several specifications share the variables:                             *)
(*   SpecBackup  the maintenance functions under a running clock           *)
(*   SpecScore   the scoring pass of the checklist form                    *)
(*   SpecBanda   the compliance band of a percentage                       *)
(*   SpecUsers   credentials: seeding, login, user management              *)
(*   Spec        the audit recorder and the checklist catalog, with store  *)
(*               errors                                                    *)
(*   SpecSesiones  two sessions, one store statement per step              *)
(*   SpecSinBd   the maintenance functions without a database file         *)
(*   SpecDiario  sessions of every role while the days pass                *)
(*   SpecFiltro  the filters of the history page                           *)
(*   SpecInitDb  init_db() over every database                             *)
(*   SpecEnvios  two sessions submit the checklist form at the same time   *)
(*   SpecPuntajes  audits over items of different maximum score            *)
(*   SpecConexiones  the connections opened and closed by the operations   *)
(*   SpecPoda    backups over a directory that holds other files too       *)
(***************************************************************************)
EXTENDS Integers, Sequences, FiniteSets, TLC

VARIABLES
    now,        \* the wall clock, in whole seconds since the model's epoch
    fs,         \* the files: DB_PATH, the directory backups/ (the backups and the
                \* other files in it), the backup log lines
    ultimo,     \* the last operation run and what it returned or displayed
    users,      \* table users
    items,      \* table checklist_items, in rowid order (a row is identified by its place)
    results,    \* table checklist_results, in rowid order
    session,    \* st.session_state
    form,       \* the locals of one rendering of a page; in SpecConexiones, the
                \* connections the process holds open
    hilos       \* the script runs of other browser sessions that are inside a handler

vars == <<now, fs, ultimo, users, items, results, session, form, hilos>>

(***************************************************************************)
(* Bounds of the model.                                                    *)
(***************************************************************************)
\* the clock runs from 0 to MaxInstante
MaxInstante == 10
\* seconds in one modelled calendar day
SegPorDia == 4
\* calls of hacer_backup_bd that the log may record
MaxLlamadas == 11

\* items of a catalog in one rendering of the checklist form
MaxItemsForm == 3
\* largest puntaje_max of a catalog item in one rendering of the form
MaxPuntajeForm == 3
\* rows of table users
MaxUsers == 4
\* rows of table checklist_items
MaxItems == 2
\* largest puntaje_max the administrator enters (the form allows 1..100)
MaxPuntaje == 1
\* rows of table checklist_results
MaxResults == 2
\* backups taken from the maintenance tab while the clock stands still
MaxBackupsManuales == 1
\* rows of checklist_results when the history page is rendered
MaxFilasHistorico == 2
\* latest audit date of a row of the history, in days
MaxFecha == 3
\* calls of init_db() in a row
MaxLlamadasInit == 2
\* highest puntaje_max an administrator gives an item in SpecPuntajes
MaxPuntajeCatalogo == 3
\* connections counted as open at once in SpecConexiones
MaxAbiertas == 3

(***************************************************************************)
(* Program constants.                                                      *)
(***************************************************************************)
\* backups[:-10]: the number of backups kept
MaxBackups == 10
\* round(..., 2): a percentage is kept in hundredths of a percent
Decimales == 2
\* porcentaje >= 90: excellent
UmbralExcelente == 90
\* porcentaje >= 70: acceptable
UmbralAceptable == 70

NoOp == [op |-> "inicio", ret |-> "None"]

(***************************************************************************)
(* Maintenance: hacer_backup_bd and verificar_backup_diario.               *)
(***************************************************************************)
\* datetime.now().strftime("%Y%m%d"): the calendar day of an instant
Hoy(t) == t \div SegPorDia

\* datetime.now().strftime("%Y%m%d_%H%M%S"): the name carries the day and
\* the second of the day; anything finer than a second is dropped, so two
\* calls within one second of the clock get the same name
Timestamp(t) == <<t \div SegPorDia, t % SegPorDia>>

\* the order of sorted() on the file names: fixed-width digits, so the
\* lexicographic order of the names is the order of (day, second)
NombreMenor(a, b) == a[1] < b[1] \/ (a[1] = b[1] /\ a[2] < b[2])

\* sorted(backups)[10:]: the names with at least MaxBackups names before them
BackupsRecientes(S) ==
    {f \in S : Cardinality({g \in S : NombreMenor(g, f)}) >= MaxBackups}

\* sorted(backups)[:-10]: the names with at least MaxBackups names after them
BackupsViejos(S) ==
    {f \in S : Cardinality({g \in S : NombreMenor(f, g)}) >= MaxBackups}

\* glob("backups/auditoria_backup_{hoy}_*.db")
BackupsDeHoy(f, t) == {b \in f.backups : b[1] = Hoy(t)}

\* os.makedirs comes before the check for the database file
hacer_backup_bd_mkdir_antes(f, t) ==
    IF f.db
    THEN LET copiado == f.backups \cup {Timestamp(t)}
         IN [ok |-> TRUE,
             fs |-> [f EXCEPT !.dir = TRUE,
                              !.backups = copiado \ BackupsViejos(copiado),
                              !.log = f.log + 1]]
    ELSE [ok |-> FALSE, fs |-> [f EXCEPT !.dir = TRUE]]

\* os.listdir('backups') once the copy is made: the names as (prefix, rest)
listdir(f, t) ==
    {<<"auditoria_backup_", b>> : b \in f.backups \cup {Timestamp(t)}}
    \cup {<<"", o>> : o \in f.otros}

\* hacer_backup_bd(): the files afterwards and the returned success flag.
\* backups = sorted(names that start with 'auditoria_backup_'); the names
\* backups[:-10] are removed
hacer_backup_bd(f, t) ==
    IF f.db
    THEN LET backups == {n[2] : n \in {x \in listdir(f, t) : x[1] = "auditoria_backup_"}}
             quedan == {n \in listdir(f, t) :
                            ~(n[1] = "auditoria_backup_" /\ n[2] \in BackupsViejos(backups))}
         IN [ok |-> TRUE,
             fs |-> [f EXCEPT !.dir = TRUE,
                              !.backups = {n[2] : n \in {x \in quedan :
                                                            x[1] = "auditoria_backup_"}},
                              !.otros = {n[2] : n \in {x \in quedan :
                                                          x[1] # "auditoria_backup_"}},
                              !.log = f.log + 1]]
    ELSE [ok |-> FALSE, fs |-> f]

\* verificar_backup_diario(): the files afterwards and the returned flag
verificar_backup_diario(f, t) ==
    IF f.dir /\ BackupsDeHoy(f, t) = {}
    THEN [ret |-> TRUE, fs |-> hacer_backup_bd(f, t).fs]
    ELSE [ret |-> FALSE, fs |-> f]

InitFs ==
    [db |-> FALSE, tablas |-> {}, dir |-> FALSE, backups |-> {}, otros |-> {}, log |-> 0]

(***************************************************************************)
(* init_db(): the schema.  fs.tablas are the tables the database file      *)
(* holds; a table that is not there has no rows.                           *)
(***************************************************************************)
Tablas == {"users", "checklist_items", "checklist_results"}

\* the database file and the rows of its tables
Bd(f, us, its, res) == [fs |-> f, users |-> us, items |-> its, results |-> res]

\* DROP TABLE IF EXISTS before every CREATE TABLE
init_db_recreando(bd) ==
    [fs |-> [bd.fs EXCEPT !.db = TRUE, !.tablas = Tablas],
     users |-> <<>>, items |-> <<>>, results |-> <<>>]

\* init_db(): sqlite3.connect creates the file; each CREATE TABLE IF NOT
\* EXISTS makes the table, empty, only when it is not there
init_db(bd) ==
    [fs |-> [bd.fs EXCEPT !.db = TRUE, !.tablas = @ \cup Tablas],
     users |-> IF "users" \in bd.fs.tablas THEN bd.users ELSE <<>>,
     items |-> IF "checklist_items" \in bd.fs.tablas THEN bd.items ELSE <<>>,
     results |-> IF "checklist_results" \in bd.fs.tablas THEN bd.results ELSE <<>>]

(***************************************************************************)
(* The state of a fresh installation: no database file, no backups, empty  *)
(* tables, and the session as lines 308-312 initialise it.                 *)
(***************************************************************************)
InitSession == [login |-> FALSE, user |-> "", rol |-> "", current_page |-> "checklist"]

InitForm == [fase |-> "none"]

\* the browser sessions that run the script at the same time
Sesiones == {"A", "B"}

\* a session between two script runs; admin: it has logged in as an administrator
Reposo(admin) == [en |-> "reposo", k |-> 0, pend |-> <<>>, entrada |-> [tipo |-> "none"],
                  admin |-> admin]

InitHilos == [s \in Sesiones |-> Reposo(FALSE)]

InitComun ==
    /\ now = 0
    /\ fs = InitFs
    /\ ultimo = NoOp
    /\ users = <<>>
    /\ items = <<>>
    /\ results = <<>>
    /\ session = InitSession
    /\ hilos = InitHilos
    /\ form = InitForm

(***************************************************************************)
(* SpecBackup: the maintenance functions called one at a time while the    *)
(* clock runs.  The tables and the session play no part.                   *)
(***************************************************************************)
varsNoFs == <<users, items, results, session, form, hilos>>

\* init_db(): sqlite3.connect creates the database file
BkInitDb ==
    /\ fs' = init_db(Bd(fs, users, items, results)).fs
    /\ ultimo' = [op |-> "init_db", ret |-> "None"]
    /\ UNCHANGED <<now, varsNoFs>>

\* a call of hacer_backup_bd()
BkHacerBackup ==
    /\ fs.log < MaxLlamadas
    /\ LET r == hacer_backup_bd(fs, now)
       IN /\ fs' = r.fs
          /\ ultimo' = [op |-> "hacer_backup_bd",
                        ret |-> IF r.ok THEN "True" ELSE "False"]
    /\ UNCHANGED <<now, varsNoFs>>

\* a call of verificar_backup_diario()
BkVerificarBackup ==
    /\ fs.log < MaxLlamadas
    /\ LET r == verificar_backup_diario(fs, now)
       IN /\ fs' = r.fs
          /\ ultimo' = [op |-> "verificar_backup_diario",
                        ret |-> IF r.ret THEN "True" ELSE "False"]
    /\ UNCHANGED <<now, varsNoFs>>

\* the clock advances by one second
Tick ==
    /\ now < MaxInstante
    /\ now' = now + 1
    /\ UNCHANGED <<fs, ultimo, varsNoFs>>

NextBackup == BkInitDb \/ BkHacerBackup \/ BkVerificarBackup \/ Tick

SpecBackup == InitComun /\ [][NextBackup]_vars

(***************************************************************************)
(* C4: starting from any state in which the database file exists and no    *)
(* backup is dated today (the directory backups/ may be missing), two      *)
(* calls of verificar_backup_diario on the same day leave exactly one      *)
(* backup dated that day.                                                  *)
(***************************************************************************)
C4_DosLlamadasUnBackup ==
    (fs.db /\ BackupsDeHoy(fs, now) = {}) =>
        LET una == verificar_backup_diario(fs, now).fs
            dos == verificar_backup_diario(una, now).fs
        IN Cardinality(BackupsDeHoy(dos, now)) = 1

(***************************************************************************)
(* C5: after n successful calls of hacer_backup_bd starting from an empty  *)
(* backup directory (the log holds one line per successful call) the       *)
(* directory holds exactly min(n, 10) backup files.                        *)
(***************************************************************************)
C5_MinNDiez ==
    Cardinality(fs.backups) = IF fs.log <= MaxBackups THEN fs.log ELSE MaxBackups

(***************************************************************************)
(* The scoring pass of pagina_checklist (lines 500-578).  A percentage is  *)
(* an integer number of hundredths of a percent: 6667 stands for 66.67.    *)
(***************************************************************************)
Centesimas == 10 ^ Decimales

\* sum of field c over a sequence of records: items["puntaje_max"].sum()
\* and the running total += p
RECURSIVE Suma(_, _)
Suma(sq, c) == IF sq = <<>> THEN 0 ELSE sq[1][c] + Suma(Tail(sq), c)

\* round(x, 2) of the exact quotient 100 * num / den: the nearest hundredth,
\* a tie going to the even neighbour as Python's round does
Redondear(num, den) ==
    LET q == (100 * Centesimas * num) \div den
        r == (100 * Centesimas * num) % den
    IN IF 2 * r > den THEN q + 1
       ELSE IF 2 * r < den THEN q
       ELSE IF q % 2 = 0 THEN q ELSE q + 1

\* int(x * 100) / 100 in place of round(x, 2)
PorcentajeTruncado(total, max_total) ==
    IF max_total > 0
    THEN [valor |-> (100 * Centesimas * total) \div max_total, dividido |-> TRUE]
    ELSE [valor |-> 0, dividido |-> FALSE]

\* porcentaje = round((total / max_total) * 100, 2) if max_total > 0 else 0
Porcentaje(total, max_total) ==
    IF max_total > 0
    THEN [valor |-> Redondear(total, max_total), dividido |-> TRUE]
    ELSE [valor |-> 0, dividido |-> FALSE]

\* the thresholds taken strictly
BandaEstricta(p) ==
    IF p > UmbralExcelente * Centesimas THEN "excelente"
    ELSE IF p > UmbralAceptable * Centesimas THEN "aceptable"
    ELSE "critico"

\* if porcentaje >= 90 ... elif porcentaje >= 70 ... else ...
Banda(p) ==
    IF p >= UmbralExcelente * Centesimas THEN "excelente"
    ELSE IF p >= UmbralAceptable * Centesimas THEN "aceptable"
    ELSE "critico"

\* one rendering of the form over the answers (r = catalog row, p = score)
Puntuar(respuestas) ==
    IF respuestas = <<>>
    THEN [fase |-> "sin_items", respuestas |-> respuestas]
    ELSE LET total == Suma(respuestas, "p")
             max_total == Suma(respuestas, "puntaje_max")
             pc == Porcentaje(total, max_total)
         IN [fase |-> "mostrado", respuestas |-> respuestas,
             total |-> total, max_total |-> max_total,
             porcentaje |-> pc.valor, dividido |-> pc.dividido,
             banda |-> Banda(pc.valor)]

(***************************************************************************)
(* SpecScore: the form is rendered over every catalog of at most           *)
(* MaxItemsForm items and every choice of scores the select boxes offer,   *)
(* list(range(0, puntaje_max + 1)).  The store does not enforce            *)
(* puntaje_max >= 1, so a catalog row may carry 0.                         *)
(***************************************************************************)
varsNoForm == <<now, fs, users, items, results, session, hilos>>

Respuesta ==
    {[puntaje_max |-> m, p |-> p] : m \in 0..MaxPuntajeForm, p \in 0..MaxPuntajeForm}

RespuestasPosibles ==
    {sq \in UNION {[1..n -> Respuesta] : n \in 0..MaxItemsForm} :
        \A i \in DOMAIN sq : sq[i].p <= sq[i].puntaje_max}

InitScore ==
    /\ now = 0
    /\ fs = InitFs
    /\ ultimo = NoOp
    /\ users = <<>>
    /\ items = <<>>
    /\ results = <<>>
    /\ session = InitSession
    /\ hilos = InitHilos
    /\ \E sq \in RespuestasPosibles : form = [fase |-> "entrada", respuestas |-> sq]

ScRender ==
    /\ form.fase = "entrada"
    /\ form' = Puntuar(form.respuestas)
    /\ ultimo' = [op |-> "pagina_checklist", ret |-> "None"]
    /\ UNCHANGED varsNoForm

NextScore == ScRender

SpecScore == InitScore /\ [][NextScore]_vars

(***************************************************************************)
(* C7: with every score within 0..puntaje_max, if max_total > 0 the        *)
(* displayed percentage is 100 * total / max_total rounded to two decimals *)
(* (no hundredth is nearer to the exact quotient) and lies in [0, 100]; if *)
(* max_total = 0 the percentage is 0 and no division is made.              *)
(***************************************************************************)
C7_Porcentaje ==
    form.fase = "mostrado" =>
        LET t == Suma(form.respuestas, "p")
            m == Suma(form.respuestas, "puntaje_max")
            d == 10000 * t - form.porcentaje * m
        IN /\ m > 0 => /\ form.dividido
                       /\ 2 * d <= m /\ -2 * d <= m
                       /\ 0 <= form.porcentaje /\ form.porcentaje <= 10000
           /\ m = 0 => form.porcentaje = 0 /\ ~form.dividido

\* two thirds of the maximum: 66.666... is displayed as 66.67
C7_Witness ==
    /\ form.fase = "mostrado"
    /\ form.total = 2 /\ form.max_total = 3
    /\ form.porcentaje = 6667

(***************************************************************************)
(* SpecBanda: the band of every percentage from 0.00 to 100.00.  Each of   *)
(* them is the percentage of some catalog (max_total = 10000).             *)
(***************************************************************************)
InitBanda ==
    /\ now = 0
    /\ fs = InitFs
    /\ ultimo = NoOp
    /\ users = <<>>
    /\ items = <<>>
    /\ results = <<>>
    /\ session = InitSession
    /\ hilos = InitHilos
    /\ \E p \in 0..(100 * Centesimas) : form = [fase |-> "porcentaje", porcentaje |-> p]

BnClasificar ==
    /\ form.fase = "porcentaje"
    /\ form' = [fase |-> "banda", porcentaje |-> form.porcentaje,
                banda |-> Banda(form.porcentaje)]
    /\ ultimo' = [op |-> "pagina_checklist", ret |-> "None"]
    /\ UNCHANGED varsNoForm

NextBanda == BnClasificar

SpecBanda == InitBanda /\ [][NextBanda]_vars

(***************************************************************************)
(* C8: the band is a total function of the percentage with inclusive lower *)
(* bounds: >= 90 excellent, 70 <= p < 90 acceptable, < 70 critical; 90.00  *)
(* is excellent, 89.99 and 70.00 acceptable, 69.99 critical.               *)
(***************************************************************************)
C8_Banda ==
    form.fase = "banda" =>
        /\ form.banda \in {"excelente", "aceptable", "critico"}
        /\ form.banda = "excelente" <=> form.porcentaje >= 9000
        /\ form.banda = "aceptable" <=> (7000 <= form.porcentaje /\ form.porcentaje < 9000)
        /\ form.banda = "critico" <=> form.porcentaje < 7000
        /\ form.porcentaje = 9000 => form.banda = "excelente"
        /\ form.porcentaje = 8999 => form.banda = "aceptable"
        /\ form.porcentaje = 7000 => form.banda = "aceptable"
        /\ form.porcentaje = 6999 => form.banda = "critico"

\* the boundary 70.00 has been classified, as acceptable
C8_Witness ==
    /\ form.fase = "banda"
    /\ form.porcentaje = 7000
    /\ form.banda = "aceptable"

(***************************************************************************)
(* Credentials: hash_pass, login_user, crear_usuarios_por_defecto.         *)
(* Table users is the sequence of its rows in rowid order; no row is ever  *)
(* deleted, so the id of a row is its position.                            *)
(***************************************************************************)
Roles == {"auditor", "admin", "supervisor"}

\* usuarios_default
usuarios_default ==
    << [username |-> "admin", password |-> "admin123", rol |-> "admin"],
       [username |-> "auditor", password |-> "auditor123", rol |-> "auditor"],
       [username |-> "supervisor", password |-> "supervisor123", rol |-> "supervisor"] >>

\* nueva_pass = "temp123"
nueva_pass == "temp123"

\* the passwords typed in the model and len(password)
Passwords == {"admin123", "auditor123", "supervisor123", "temp123", "nueva456", "corta"}

Longitud(pw) ==
    CASE pw = "admin123" -> 8
      [] pw = "auditor123" -> 10
      [] pw = "supervisor123" -> 13
      [] pw = "temp123" -> 7
      [] pw = "nueva456" -> 8
      [] pw = "corta" -> 5
      [] OTHER -> 0

\* the user names typed in the model
Usernames == {"admin", "auditor", "supervisor", "ana"}

\* hashlib.sha256(p.encode()).hexdigest(): a digest, never the password
\* itself; distinct passwords of the model have distinct digests
hash_pass(pw) == <<"sha256", pw>>

\* SELECT * FROM users WHERE username=?
FilasDeUsuario(us, username) == SelectSeq(us, LAMBDA u : u.username = username)

\* the WHERE clause without the password
login_sin_password(us, user, pwd) ==
    LET filas == FilasDeUsuario(us, user)
    IN IF filas = <<>> THEN <<>> ELSE <<filas[1]>>

\* login_user(user, pwd): fetchone() of the rows with that username and
\* that password hash; <<>> stands for None
login_user(us, user, pwd) ==
    LET filas == SelectSeq(us, LAMBDA u : u.username = user /\ u.password = hash_pass(pwd))
    IN IF filas = <<>> THEN <<>> ELSE <<filas[1]>>

\* the loop of crear_usuarios_por_defecto over usuarios_default[k..]
RECURSIVE SembrarDesde(_, _)
SembrarDesde(us, k) ==
    IF k > Len(usuarios_default) THEN us
    ELSE LET d == usuarios_default[k]
         IN IF FilasDeUsuario(us, d.username) = <<>>
            THEN SembrarDesde(Append(us, [username |-> d.username,
                                          password |-> hash_pass(d.password),
                                          rol |-> d.rol]), k + 1)
            ELSE SembrarDesde(us, k + 1)

\* INSERT OR REPLACE in place of the check before the insert
RECURSIVE ResembrarDesde(_, _)
ResembrarDesde(us, k) ==
    IF k > Len(usuarios_default) THEN us
    ELSE LET d == usuarios_default[k]
             fila == [username |-> d.username, password |-> hash_pass(d.password),
                      rol |-> d.rol]
         IN ResembrarDesde(Append(SelectSeq(us, LAMBDA u : u.username # d.username), fila),
                           k + 1)

crear_usuarios_reemplazando(us) == ResembrarDesde(us, 1)

\* crear_usuarios_por_defecto()
crear_usuarios_por_defecto(us) == SembrarDesde(us, 1)

(***************************************************************************)
(* One run of the script.  Streamlit runs the whole file on every          *)
(* interaction: init_db(), crear_usuarios_por_defecto() and                *)
(* verificar_backup_diario() (lines 1477-1483) come before main().         *)
(***************************************************************************)
\* the files after init_db() and verificar_backup_diario()
FsRun == verificar_backup_diario(init_db(Bd(fs, users, items, results)).fs, now).fs

\* table users after crear_usuarios_por_defecto()
UsersRun == crear_usuarios_por_defecto(init_db(Bd(fs, users, items, results)).users)

Paginas == {"checklist", "administrar", "historico", "exportar", "usuarios", "estado"}

\* main(): the page the routing renders for a logged-in session
PaginaMostrada(s) == IF s.current_page \in Paginas THEN s.current_page ELSE "checklist"

\* mostrar_sidebar(): the pages of menu_items for a role
menu_items(rol) ==
    IF rol = "admin" THEN Paginas
    ELSE IF rol = "auditor" THEN {"checklist", "historico", "exportar"}
    ELSE {"historico", "exportar"}

\* a run with no widget touched
CargarPagina ==
    /\ users' = UsersRun
    /\ fs' = FsRun
    /\ ultimo' = [op |-> "main", ret |-> "None"]
    /\ UNCHANGED <<now, items, results, session, form, hilos>>

\* mostrar_login(): the form is submitted with `user` and `pwd`
Login(user, pwd) ==
    /\ ~session.login
    /\ users' = UsersRun
    /\ fs' = FsRun
    /\ IF user # "" /\ pwd # ""
       THEN LET data == login_user(UsersRun, user, pwd)
            IN /\ ultimo' = [op |-> "login_user", user |-> user, pwd |-> pwd, ret |-> data]
               /\ session' = IF data # <<>>
                             THEN [login |-> TRUE, user |-> user, rol |-> data[1].rol,
                                   current_page |-> "checklist"]
                             ELSE session
       ELSE /\ ultimo' = [op |-> "mostrar_login", ret |-> "Complete todos los campos"]
            /\ session' = session
    /\ UNCHANGED <<now, items, results, form, hilos>>

\* mostrar_sidebar(): a navigation button of the role's menu
Navegar(pagina) ==
    /\ session.login
    /\ pagina \in menu_items(session.rol)
    /\ users' = UsersRun
    /\ fs' = FsRun
    /\ session' = [session EXCEPT !.current_page = pagina]
    /\ ultimo' = [op |-> "mostrar_sidebar", ret |-> "None"]
    /\ UNCHANGED <<now, items, results, form, hilos>>

\* "Cerrar Sesion" clears the login flag and keeps the other keys
CerrarSesionSoloLogin ==
    /\ session.login
    /\ users' = UsersRun
    /\ fs' = FsRun
    /\ session' = [session EXCEPT !.login = FALSE]
    /\ ultimo' = [op |-> "cerrar_sesion", ret |-> "None"]
    /\ UNCHANGED <<now, items, results, form, hilos>>

\* mostrar_sidebar(): "Cerrar Sesion" deletes every key of the session and
\* the rerun initialises it again (lines 308-312)
CerrarSesion ==
    /\ session.login
    /\ users' = UsersRun
    /\ fs' = FsRun
    /\ session' = InitSession
    /\ ultimo' = [op |-> "cerrar_sesion", ret |-> "None"]
    /\ UNCHANGED <<now, items, results, form, hilos>>

(***************************************************************************)
(* pagina_usuarios(): create a user, change a role, reset a password.      *)
(***************************************************************************)
EnPaginaUsuarios ==
    /\ session.login
    /\ PaginaMostrada(session) = "usuarios"
    /\ session.rol = "admin"

\* tab "Crear Usuario"
CrearUsuario(username, password, confirm_password, rol) ==
    /\ EnPaginaUsuarios
    /\ Len(UsersRun) < MaxUsers
    /\ fs' = FsRun
    /\ IF username = "" \/ password = "" THEN
            /\ users' = UsersRun
            /\ ultimo' = [op |-> "crear_usuario", ret |-> "Complete todos los campos"]
       ELSE IF password # confirm_password THEN
            /\ users' = UsersRun
            /\ ultimo' = [op |-> "crear_usuario", ret |-> "Las contrasenas no coinciden"]
       ELSE IF Longitud(password) < 6 THEN
            /\ users' = UsersRun
            /\ ultimo' = [op |-> "crear_usuario", ret |-> "al menos 6 caracteres"]
       ELSE IF FilasDeUsuario(UsersRun, username) # <<>> THEN
            /\ users' = UsersRun
            /\ ultimo' = [op |-> "crear_usuario", ret |-> "ya existe"]
       ELSE
            /\ users' = Append(UsersRun, [username |-> username,
                                          password |-> hash_pass(password),
                                          rol |-> rol])
            /\ ultimo' = [op |-> "crear_usuario", ret |-> "Usuario creado"]
    /\ UNCHANGED <<now, items, results, session, form, hilos>>

\* the label of the role is stored in place of the option
ActualizarRolEtiqueta(k, nuevo_rol) ==
    /\ EnPaginaUsuarios
    /\ k \in 1..Len(UsersRun)
    /\ fs' = FsRun
    /\ users' = [UsersRun EXCEPT ![k].rol = IF nuevo_rol = "admin" THEN "Administrador"
                                            ELSE IF nuevo_rol = "auditor" THEN "Auditor"
                                            ELSE "Supervisor"]
    /\ ultimo' = [op |-> "actualizar_rol", ret |-> "Rol actualizado"]
    /\ UNCHANGED <<now, items, results, session, form, hilos>>

\* tab "Editar Usuario", button "Actualizar Rol" for the row with id k
ActualizarRol(k, nuevo_rol) ==
    /\ EnPaginaUsuarios
    /\ k \in 1..Len(UsersRun)
    /\ fs' = FsRun
    /\ IF nuevo_rol # UsersRun[k].rol
       THEN /\ users' = [UsersRun EXCEPT ![k].rol = nuevo_rol]
            /\ ultimo' = [op |-> "actualizar_rol", ret |-> "Rol actualizado"]
       ELSE /\ users' = UsersRun
            /\ ultimo' = [op |-> "actualizar_rol", ret |-> "No se realizaron cambios"]
    /\ UNCHANGED <<now, items, results, session, form, hilos>>

\* the UPDATE without its WHERE clause
ResetearPasswordDeTodos(k) ==
    /\ EnPaginaUsuarios
    /\ k \in 1..Len(UsersRun)
    /\ fs' = FsRun
    /\ users' = [j \in 1..Len(UsersRun) |->
                    [UsersRun[j] EXCEPT !.password = hash_pass(nueva_pass)]]
    /\ ultimo' = [op |-> "resetear_password", usuario |-> k,
                  ret |-> "Contrasena reseteada"]
    /\ UNCHANGED <<now, items, results, session, form, hilos>>

\* tab "Editar Usuario", button "Resetear Contrasena" for the row with id k
ResetearPassword(k) ==
    /\ EnPaginaUsuarios
    /\ k \in 1..Len(UsersRun)
    /\ fs' = FsRun
    /\ users' = [UsersRun EXCEPT ![k].password = hash_pass(nueva_pass)]
    /\ ultimo' = [op |-> "resetear_password", usuario |-> k,
                  ret |-> "Contrasena reseteada"]
    /\ UNCHANGED <<now, items, results, session, form, hilos>>

(***************************************************************************)
(* SpecUsers: one session over the credentials.                            *)
(***************************************************************************)
\* what is typed into the login form: the default credentials, the
\* temporary password for every user, the password of a created user, the
\* password of another user, and an empty field
IntentosLogin ==
    {<<usuarios_default[k].username, usuarios_default[k].password>> : k \in 1..3}
    \cup {<<u, nueva_pass>> : u \in Usernames}
    \cup {<<"ana", "nueva456">>, <<"admin", "auditor123">>, <<"", "admin123">>, <<"admin", "">>}

NextUsers ==
    \/ CargarPagina
    \/ \E c \in IntentosLogin : Login(c[1], c[2])
    \/ \E pagina \in Paginas : Navegar(pagina)
    \/ CerrarSesion
    \/ \E username \in {"ana", "admin", ""}, password \in {"nueva456", "corta", ""},
          confirm_password \in {"nueva456", "corta"}, rol \in Roles :
            CrearUsuario(username, password, confirm_password, rol)
    \/ \E k \in 1..MaxUsers, nuevo_rol \in Roles : ActualizarRol(k, nuevo_rol)
    \/ \E k \in 1..MaxUsers : ResetearPassword(k)

SpecUsers == InitComun /\ [][NextUsers]_vars

\* C12: the rol of every stored user is admin, auditor or supervisor, after
\* any sequence of seeding, user creation and role change.
C12_RolCerrado ==
    \A k \in 1..Len(users) : users[k].rol \in {"admin", "auditor", "supervisor"}

\* a user was created and a seeded user's role was changed afterwards
C12_Witness ==
    /\ ultimo.op = "actualizar_rol"
    /\ ultimo.ret = "Rol actualizado"
    /\ Len(users) = 4
    /\ users[4].username = "ana"
    /\ users[2].rol # usuarios_default[2].rol

(***************************************************************************)
(* C21: after "Resetear Contrasena" on a user, login_user with that        *)
(* username and the temporary password temp123 returns that user, and      *)
(* login_user with the previous password returns None when the previous    *)
(* password is not temp123; the reset changes only the password hash of    *)
(* that user: its username and role and every other row stay as they were. *)
(***************************************************************************)
C21_ResetPassword ==
    [][ultimo'.op = "resetear_password" =>
        LET k == ultimo'.usuario
        IN /\ k \in 1..Len(users)
           /\ Len(users') = Len(users)
           /\ login_user(users', users[k].username, nueva_pass) = <<users'[k]>>
           /\ \A pw \in Passwords :
                pw # nueva_pass /\ users[k].password = hash_pass(pw) =>
                    login_user(users', users[k].username, pw) = <<>>
           /\ users'[k].username = users[k].username
           /\ users'[k].rol = users[k].rol
           /\ \A j \in 1..Len(users) : j # k => users'[j] = users[j]]_vars

\* the password of the auditor account was reset while the admin account
\* and the created account keep theirs
C21_Witness ==
    /\ ultimo.op = "resetear_password"
    /\ ultimo.usuario = 2
    /\ Len(users) = 4
    /\ users[2] = [username |-> "auditor", password |-> hash_pass(nueva_pass),
                   rol |-> "auditor"]
    /\ users[1].password = hash_pass("admin123")
    /\ users[4].password = hash_pass("nueva456")

\* C29: once the script has run, at least one row of users has rol admin,
\* after any sequence of user creations, role changes, password resets and
\* further script runs (each of which seeds the default users again).
C29_SiempreUnAdmin ==
    ultimo.op # "inicio" => \E k \in 1..Len(users) : users[k].rol = "admin"

(***************************************************************************)
(* C6: login_user returns a user record if and only if a stored user has   *)
(* exactly the given username and a stored password hash equal to the hash *)
(* of the given password; every other input gets no match (None).          *)
(***************************************************************************)
C6_LoginExacto ==
    ultimo.op = "login_user" =>
        LET coincide(u) == u.username = ultimo.user /\ u.password = hash_pass(ultimo.pwd)
            hay == \E k \in 1..Len(users) : coincide(users[k])
        IN /\ ultimo.ret # <<>> <=> hay
           /\ ultimo.ret # <<>> =>
                /\ coincide(ultimo.ret[1])
                /\ \E k \in 1..Len(users) : users[k] = ultimo.ret[1]
           /\ session.login <=> hay

\* a stored user name with the password of another user: no match
C6_Witness ==
    /\ ultimo.op = "login_user"
    /\ ultimo.user = "admin" /\ ultimo.pwd = "auditor123"
    /\ ultimo.ret = <<>>
    /\ ~session.login

(***************************************************************************)
(* C10: crear_usuarios_por_defecto is idempotent: after any number of      *)
(* calls, interleaved with the other user operations, there is exactly one *)
(* account for each of admin, auditor and supervisor; a call inserts a     *)
(* default account only when no account has that username, and never       *)
(* changes the password or role of an existing account.                    *)
(***************************************************************************)
C10_SeedIdempotente ==
    LET s == crear_usuarios_por_defecto(users)
        defaults == {[username |-> usuarios_default[k].username,
                      password |-> hash_pass(usuarios_default[k].password),
                      rol |-> usuarios_default[k].rol] : k \in 1..3}
    IN /\ \A d \in defaults : Len(FilasDeUsuario(s, d.username)) = 1
       /\ Len(s) >= Len(users)
       /\ SubSeq(s, 1, Len(users)) = users
       /\ \A i \in (Len(users) + 1)..Len(s) :
            s[i] \in defaults /\ FilasDeUsuario(users, s[i].username) = <<>>
       /\ crear_usuarios_por_defecto(s) = s
       /\ ultimo.op # "inicio" => users = s

\* the admin account had its password reset and its role changed, and a
\* later run of the script (which seeds again) left it that way
C10_Witness ==
    /\ ultimo.op = "main"
    /\ Len(users) >= 3
    /\ users[1].username = "admin"
    /\ users[1].password = hash_pass(nueva_pass)
    /\ users[1].rol = "supervisor"

(***************************************************************************)
(* The checklist catalog: guardar_item_checklist, actualizar_item_checklist *)
(* and eliminar_item_checklist.  `k` is the place of the row whose id is   *)
(* passed.                                                                 *)
(***************************************************************************)
Categorias == {"Calidad", "Seguridad"}

Textos == {"Extintores"}

\* the order of ORDER BY categoria on the category names
RangoCategoria(c) == IF c = "Calidad" THEN 1 ELSE 2

\* row i comes before row k in SELECT * FROM checklist_items ORDER BY
\* categoria (rows of one category in rowid order)
Antes(its, i, k) ==
    \/ RangoCategoria(its[i].categoria) < RangoCategoria(its[k].categoria)
    \/ its[i].categoria = its[k].categoria /\ i < k

\* pd.read_sql("SELECT * FROM checklist_items ORDER BY categoria"): the
\* rows in that order, each with its id
read_items(its) ==
    [j \in 1..Len(its) |->
        LET i == CHOOSE i \in 1..Len(its) :
                    Cardinality({k \in 1..Len(its) : Antes(its, k, i)}) = j - 1
        IN [id |-> i, categoria |-> its[i].categoria, item |-> its[i].item,
            puntaje_max |-> its[i].puntaje_max]]

\* where a store call of an operation raises sqlite3.Error, if it does:
\* before the statement takes effect (connect or execute) or at the commit
Fallas == {"ninguna", "execute", "commit"}

\* the connection commits on close
conn_close_guardando(confirmado, pendiente) == pendiente

\* conn.close() on a connection with statements it did not commit: the
\* table as committed before, the pending rows are dropped
conn_close(confirmado, pendiente) == confirmado

\* the statement and the commit with no except clause around them
sin_manejo_de_errores(antes, despues, falla) ==
    IF falla = "ninguna"
    THEN [ok |-> TRUE, exc |-> "None", tabla |-> despues]
    ELSE [ok |-> FALSE, exc |-> "sqlite3.Error",
          tabla |-> IF falla = "commit" THEN conn_close(antes, despues) ELSE antes]

\* try: connect, execute, commit, return True, msg / except sqlite3.Error:
\* return False, msg / finally: conn.close(); `despues` is the table once
\* the statement is committed
con_manejo_de_errores(antes, despues, falla) ==
    IF falla = "ninguna"
    THEN [ok |-> TRUE, exc |-> "None", tabla |-> despues]
    ELSE [ok |-> FALSE, exc |-> "None",
          tabla |-> IF falla = "commit" THEN conn_close(antes, despues) ELSE antes]

\* guardar_item_checklist(categoria, item, puntaje_max)
guardar_item_checklist(its, categoria, item, puntaje_max, falla) ==
    LET r == con_manejo_de_errores(its,
                Append(its, [categoria |-> categoria, item |-> item,
                             puntaje_max |-> puntaje_max]), falla)
    IN [ok |-> r.ok, exc |-> r.exc, items |-> r.tabla]

\* actualizar_item_checklist(item_id, categoria, item, puntaje_max)
actualizar_item_checklist(its, k, categoria, item, puntaje_max, falla) ==
    LET r == con_manejo_de_errores(its,
                [i \in 1..Len(its) |->
                    IF i = k THEN [categoria |-> categoria, item |-> item,
                                   puntaje_max |-> puntaje_max]
                    ELSE its[i]], falla)
    IN [ok |-> r.ok, exc |-> r.exc, items |-> r.tabla]

\* eliminar_item_checklist(item_id)
eliminar_item_checklist(its, k, falla) ==
    LET r == con_manejo_de_errores(its,
                [i \in 1..(Len(its) - (IF k \in 1..Len(its) THEN 1 ELSE 0)) |->
                    IF i < k THEN its[i] ELSE its[i + 1]], falla)
    IN [ok |-> r.ok, exc |-> r.exc, items |-> r.tabla]

\* tab "Editar/Eliminar": the option at place j of the select box stands for
\* the first row with the same label, .tolist().index(item_seleccionado)
selected_item(its, j) ==
    LET df == read_items(its)
        mismos == {i \in 1..Len(df) : df[i].categoria = df[j].categoria /\ df[i].item = df[j].item}
        selected_index == CHOOSE i \in mismos : \A m \in mismos : i <= m
    IN df[selected_index]

(***************************************************************************)
(* The audit recorder: the submission of the checklist form.               *)
(***************************************************************************)
Areas == {"Planta"}

Fechas == {1}

\* fecha.strftime("%Y-%m-%d")
FechaTexto(fecha) == <<"%Y-%m-%d", fecha>>

\* the rows of one submission without the last answer
guardar_sin_ultima(res, respuestas, fecha, area, user) ==
    res \o [j \in 1..(Len(respuestas) - 1) |->
                [fecha |-> FechaTexto(fecha), area |-> area, auditor |-> user,
                 categoria |-> respuestas[j].r.categoria, item |-> respuestas[j].r.item,
                 puntaje |-> respuestas[j].p,
                 observacion |-> respuestas[j].obs]]

\* for r, p, obs in respuestas: INSERT INTO checklist_results ...; commit
guardar_respuestas(res, respuestas, fecha, area, user) ==
    res \o [j \in 1..Len(respuestas) |->
                [fecha |-> FechaTexto(fecha), area |-> area, auditor |-> user,
                 categoria |-> respuestas[j].r.categoria, item |-> respuestas[j].r.item,
                 puntaje |-> respuestas[j].p,
                 observacion |-> IF respuestas[j].obs # "" THEN respuestas[j].obs ELSE ""]]

\* the table with the first n INSERTs of the loop executed
insertar_hasta(res, respuestas, fecha, area, user, n) ==
    res \o [j \in 1..n |->
                [fecha |-> FechaTexto(fecha), area |-> area, auditor |-> user,
                 categoria |-> respuestas[j].r.categoria, item |-> respuestas[j].r.item,
                 puntaje |-> respuestas[j].p,
                 observacion |-> IF respuestas[j].obs # "" THEN respuestas[j].obs ELSE ""]]

\* the area is not checked before the rows are written
submit_sin_validar(res, respuestas, fecha, area, user, falla) ==
    [ok |-> TRUE, exc |-> "None",
     results |-> guardar_respuestas(res, respuestas, fecha, area, user)]

\* if submitted: if not area: st.error(...) else: try: the inserts and the
\* commit / finally: conn.close().  falla = 0: no store call raises;
\* falla = k in 1..Len(respuestas): the k-th INSERT raises sqlite3.Error;
\* falla = Len(respuestas) + 1: conn.commit() raises.  There is no except
\* clause: the exception leaves the handler through finally.
submit_auditoria(res, respuestas, fecha, area, user, falla) ==
    IF area = ""
    THEN [ok |-> FALSE, exc |-> "None", results |-> res]
    ELSE IF falla = 0
    THEN [ok |-> TRUE, exc |-> "None",
          results |-> guardar_respuestas(res, respuestas, fecha, area, user)]
    ELSE [ok |-> FALSE, exc |-> "sqlite3.Error",
          results |-> conn_close(res,
                        insertar_hasta(res, respuestas, fecha, area, user,
                                       IF falla > Len(respuestas) THEN Len(respuestas)
                                       ELSE falla - 1))]

\* a free number field in place of the select box
opciones_sin_limite(row) == 0..MaxPuntajeCatalogo

\* st.selectbox("Puntaje", list(range(0, row["puntaje_max"] + 1))): the
\* scores the form offers for an item
opciones_puntaje(row) == 0..row.puntaje_max

\* respuestas of the form over the catalog, with the scores ps chosen
Respuestas(its, ps) ==
    LET df == read_items(its)
    IN [j \in 1..Len(df) |-> [r |-> df[j], p |-> ps[j], obs |-> ""]]

\* pagina_checklist(): "Guardar Auditoria" with the area, the date and the
\* scores ps, one per select box, each within list(range(0, puntaje_max + 1))
GuardarAuditoria(area, fecha, ps, falla) ==
    /\ session.login
    /\ PaginaMostrada(session) = "checklist"
    /\ items # <<>>
    /\ DOMAIN ps = 1..Len(items)
    /\ \A j \in 1..Len(items) : ps[j] \in opciones_puntaje(read_items(items)[j])
    /\ falla \in 0..(Len(items) + 1)
    /\ area = "" => falla = 0
    /\ area # "" => Len(results) + Len(items) <= MaxResults
    /\ users' = UsersRun
    /\ fs' = FsRun
    /\ LET s == submit_auditoria(results, Respuestas(items, ps), fecha, area, session.user,
                                 falla)
       IN /\ results' = s.results
          /\ ultimo' = [op |-> "pagina_checklist", area |-> area, fecha |-> fecha,
                        puntajes |-> ps, falla |-> falla,
                        ret |-> IF s.exc # "None" THEN s.exc
                                ELSE IF s.ok THEN "Auditoria guardada"
                                ELSE "Debe especificar el area auditada"]
    /\ UNCHANGED <<now, items, session, form, hilos>>

(***************************************************************************)
(* pagina_administrar(): the catalog tabs and the maintenance tab.         *)
(***************************************************************************)
\* the catalog forms shown to every logged-in session
EnCualquierPagina == session.login

EnPaginaAdministrar ==
    /\ session.login
    /\ PaginaMostrada(session) = "administrar"
    /\ session.rol = "admin"

\* tab "Agregar Items"
AgregarItem(categoria, item, puntaje, falla) ==
    /\ EnPaginaAdministrar
    /\ Len(items) < MaxItems
    /\ users' = UsersRun
    /\ fs' = FsRun
    /\ IF categoria # "" /\ item # ""
       THEN LET g == guardar_item_checklist(items, categoria, item, puntaje, falla)
            IN /\ items' = g.items
               /\ ultimo' = [op |-> "guardar_item_checklist", exito |-> g.ok,
                             ret |-> IF g.exc # "None" THEN g.exc
                                     ELSE IF g.ok THEN "Item guardado"
                                     ELSE "Error al guardar"]
       ELSE /\ falla = "ninguna"
            /\ items' = items
            /\ ultimo' = [op |-> "agregar_item", ret |-> "Complete todos los campos"]
    /\ UNCHANGED <<now, results, session, form, hilos>>

\* tab "Editar/Eliminar", button "Guardar Cambios" with option j selected
GuardarCambios(j, new_cat, new_item, new_puntaje, falla) ==
    /\ EnPaginaAdministrar
    /\ j \in 1..Len(items)
    /\ users' = UsersRun
    /\ fs' = FsRun
    /\ LET g == actualizar_item_checklist(items, selected_item(items, j).id,
                                          new_cat, new_item, new_puntaje, falla)
       IN /\ items' = g.items
          /\ ultimo' = [op |-> "actualizar_item_checklist", exito |-> g.ok,
                        ret |-> IF g.exc # "None" THEN g.exc
                                ELSE IF g.ok THEN "Cambios guardados"
                                ELSE "Error al actualizar"]
    /\ UNCHANGED <<now, results, session, form, hilos>>

\* the deletion of an item also removes the results recorded against it
EliminarItemEnCascada(j, falla) ==
    /\ EnPaginaAdministrar
    /\ j \in 1..Len(items)
    /\ users' = UsersRun
    /\ fs' = FsRun
    /\ LET g == eliminar_item_checklist(items, selected_item(items, j).id, falla)
       IN /\ items' = g.items
          /\ results' = IF g.ok
                        THEN SelectSeq(results,
                                LAMBDA f : ~(f.categoria = selected_item(items, j).categoria
                                             /\ f.item = selected_item(items, j).item))
                        ELSE results
          /\ ultimo' = [op |-> "eliminar_item_checklist", exito |-> g.ok,
                        ret |-> IF g.exc # "None" THEN g.exc
                                ELSE IF g.ok THEN "Item eliminado"
                                ELSE "Error al eliminar"]
    /\ UNCHANGED <<now, session, form, hilos>>

\* tab "Editar/Eliminar", button "Eliminar Item" and its confirmation
EliminarItem(j, falla) ==
    /\ EnPaginaAdministrar
    /\ j \in 1..Len(items)
    /\ users' = UsersRun
    /\ fs' = FsRun
    /\ LET g == eliminar_item_checklist(items, selected_item(items, j).id, falla)
       IN /\ items' = g.items
          /\ ultimo' = [op |-> "eliminar_item_checklist", exito |-> g.ok,
                        ret |-> IF g.exc # "None" THEN g.exc
                                ELSE IF g.ok THEN "Item eliminado"
                                ELSE "Error al eliminar"]
    /\ UNCHANGED <<now, results, session, form, hilos>>

\* tab "Mantenimiento", button "Crear Backup Manual"
BackupManual ==
    /\ EnPaginaAdministrar
    /\ fs.log < MaxBackupsManuales
    /\ users' = UsersRun
    /\ LET r == hacer_backup_bd(FsRun, now)
       IN /\ fs' = r.fs
          /\ ultimo' = [op |-> "hacer_backup_bd", ret |-> IF r.ok THEN "True" ELSE "False"]
    /\ UNCHANGED <<now, items, results, session, form, hilos>>

\* tab "Mantenimiento", button "Verificar Backup Diario"
BotonBackupDiario ==
    /\ EnPaginaAdministrar
    /\ users' = UsersRun
    /\ LET r == verificar_backup_diario(FsRun, now)
       IN /\ fs' = r.fs
          /\ ultimo' = [op |-> "verificar_backup_diario",
                        ret |-> IF r.ret THEN "True" ELSE "False"]
    /\ UNCHANGED <<now, items, results, session, form, hilos>>

(***************************************************************************)
(* Spec: one session over the catalog and the audit results.  The users    *)
(* are the seeded ones and the clock stands still.                         *)
(***************************************************************************)
\* what is typed into the login form: the default credentials and one
\* wrong password
IntentosAuditoria ==
    {<<usuarios_default[k].username, usuarios_default[k].password>> : k \in 1..3}
    \cup {<<"admin", "auditor123">>}

Next ==
    \/ CargarPagina
    \/ \E c \in IntentosAuditoria : Login(c[1], c[2])
    \/ \E pagina \in Paginas : Navegar(pagina)
    \/ CerrarSesion
    \/ \E area \in Areas \cup {""}, fecha \in Fechas,
          ps \in UNION {[1..n -> 0..MaxPuntaje] : n \in 1..MaxItems},
          falla \in 0..(MaxItems + 1) :
            GuardarAuditoria(area, fecha, ps, falla)
    \/ \E categoria \in Categorias \cup {""}, item \in Textos, puntaje \in 1..MaxPuntaje,
          falla \in Fallas :
            AgregarItem(categoria, item, puntaje, falla)
    \/ \E j \in 1..MaxItems, new_cat \in Categorias, new_item \in Textos,
          new_puntaje \in 1..MaxPuntaje, falla \in Fallas :
            GuardarCambios(j, new_cat, new_item, new_puntaje, falla)
    \/ \E j \in 1..MaxItems, falla \in Fallas : EliminarItem(j, falla)
    \/ BackupManual
    \/ BotonBackupDiario

Spec == InitComun /\ [][Next]_vars

\* the last step stored an audit / rejected one
AuditoriaGuardada(u) == u.op = "pagina_checklist" /\ u.ret = "Auditoria guardada"

AuditoriaRechazada(u) ==
    u.op = "pagina_checklist" /\ u.ret = "Debe especificar el area auditada"

\* C1: a submission with a non-empty area over a catalog of N items adds
\* exactly N rows after the rows already stored, the j-th of them for the j-th
\* item of the catalog as read, each with the submitted area, the submitted
\* date and the logged-in user as auditor; the stored rows stay as they were.
C1_SubmitAgregaN ==
    [][(ultimo'.op = "pagina_checklist" /\ ultimo'.area # "" /\ ultimo'.falla = 0) =>
        /\ AuditoriaGuardada(ultimo')
        /\ Len(results') = Len(results) + Len(items)
        /\ SubSeq(results', 1, Len(results)) = results
        /\ \A j \in 1..Len(items) :
            LET fila == results'[Len(results) + j]
                r == read_items(items)[j]
            IN /\ fila.area = ultimo'.area
               /\ fila.fecha = FechaTexto(ultimo'.fecha)
               /\ fila.auditor = session.user
               /\ fila.categoria = r.categoria
               /\ fila.item = r.item
               /\ fila.puntaje = ultimo'.puntajes[j]]_vars

\* an audit over a catalog of two items of different categories was stored
C1_Witness ==
    /\ AuditoriaGuardada(ultimo)
    /\ Len(items) = 2
    /\ Len(results) = 2
    /\ results[1].categoria # results[2].categoria
    /\ results[1].auditor = "auditor"

\* C2: no two rows of the results table have the same audit date, area,
\* auditor, category and item text.
C2_UnaFilaPorTupla ==
    \A i \in 1..Len(results), k \in 1..Len(results) :
        i # k => <<results[i].fecha, results[i].area, results[i].auditor,
                   results[i].categoria, results[i].item>>
                 # <<results[k].fecha, results[k].area, results[k].auditor,
                     results[k].categoria, results[k].item>>

\* C3: every step keeps the stored result rows, in place and field by field,
\* and only the step that stores an audit adds rows.
C3_SoloAgrega ==
    [][/\ Len(results') >= Len(results)
       /\ SubSeq(results', 1, Len(results)) = results
       /\ results' # results => AuditoriaGuardada(ultimo')]_vars

\* an item was deleted after an audit was recorded against it: the catalog is
\* empty and the row is still there
C3_Witness ==
    /\ ultimo.op = "eliminar_item_checklist"
    /\ items = <<>>
    /\ results # <<>>

\* C13: a step that changes table checklist_items is taken by a logged-in
\* session whose rol is admin; in the sessions of auditors and supervisors no
\* navigation and no form changes the catalog.
C13_SoloAdminCatalogo ==
    [][items' # items => session.login /\ session.rol = "admin"]_vars

\* an auditor is logged in over a catalog that an administrator filled
C13_Witness ==
    /\ session.login
    /\ session.rol = "auditor"
    /\ Len(items) = 2
    /\ ultimo.op = "mostrar_sidebar"

\* what an operation that lets a store error propagate ends with
Excepciones == {"sqlite3.Error", "sqlite3.IntegrityError", "sqlite3.OperationalError"}

\* its is the table `antes` without one of its rows
UnaFilaMenos(antes, its) ==
    /\ Len(its) = Len(antes) - 1
    /\ \E k \in 1..Len(antes) :
        \A i \in 1..Len(its) : its[i] = IF i < k THEN antes[i] ELSE antes[i + 1]

\* C14: a call of guardar_item_checklist, actualizar_item_checklist or
\* eliminar_item_checklist never raises; it returns (True, message) with its
\* whole change applied (one row added at the end, at most one row rewritten
\* in place, one row removed), or (False, message) with the catalog as it was.
C14_CrudAtomico ==
    [][ultimo'.op \in {"guardar_item_checklist", "actualizar_item_checklist",
                       "eliminar_item_checklist"} =>
        /\ ultimo'.ret \notin Excepciones
        /\ ~ultimo'.exito => items' = items
        /\ (ultimo'.exito /\ ultimo'.op = "guardar_item_checklist") =>
                Len(items') = Len(items) + 1 /\ SubSeq(items', 1, Len(items)) = items
        /\ (ultimo'.exito /\ ultimo'.op = "actualizar_item_checklist") =>
                /\ Len(items') = Len(items)
                /\ Cardinality({i \in 1..Len(items) : items'[i] # items[i]}) <= 1
        /\ (ultimo'.exito /\ ultimo'.op = "eliminar_item_checklist") =>
                UnaFilaMenos(items, items')]_vars

\* an update failed on a catalog of two items and returned (False, message)
C14_Witness ==
    /\ ultimo.op = "actualizar_item_checklist"
    /\ ~ultimo.exito
    /\ ultimo.ret = "Error al actualizar"
    /\ Len(items) = 2

\* C15: no operation ends with a store exception that nobody caught.
C15_ErroresCapturados ==
    ultimo.op # "login_user" => ultimo.ret \notin Excepciones

\* C16 as claimed: when the k-th INSERT of a submission fails, k > 1, the
\* k-1 rows inserted before it are in the table after the operation.
C16_FilasNoRevertidas ==
    [][(ultimo'.op = "pagina_checklist" /\ ultimo'.falla > 1
            /\ ultimo'.falla <= Len(items)) =>
        Len(results') = Len(results) + ultimo'.falla - 1]_vars

\* C16 as amended: when an INSERT of a submission or its commit fails, the
\* exception leaves the handler and no row of the batch is in the table
\* afterwards: checklist_results is as it was before the submission.
C16_FallaNoDejaFilas ==
    [][(ultimo'.op = "pagina_checklist" /\ ultimo'.falla > 0) =>
        ultimo'.ret = "sqlite3.Error" /\ results' = results]_vars

\* the second INSERT of a submission over two items failed
C16_Witness ==
    /\ ultimo.op = "pagina_checklist"
    /\ ultimo.falla = 2
    /\ Len(items) = 2
    /\ ultimo.ret = "sqlite3.Error"
    /\ results = <<>>

\* C9: a submission with an empty area shows the validation error and leaves
\* the results table as it was, whatever the scores.
C9_AreaVaciaNoEscribe ==
    [][(ultimo'.op = "pagina_checklist" /\ ultimo'.area = "") =>
        AuditoriaRechazada(ultimo') /\ results' = results]_vars

\* a submission with a score above zero was rejected while a stored audit
\* was in the table
C9_Witness ==
    /\ AuditoriaRechazada(ultimo)
    /\ ultimo.area = ""
    /\ \E j \in DOMAIN ultimo.puntajes : ultimo.puntajes[j] > 0
    /\ results # <<>>

\* C25: the page main() renders for a logged-in session is one of the pages
\* of the sidebar menu of the session's role, and no row of
\* checklist_results was recorded by the supervisor account.
C25_PaginaDelMenu ==
    /\ session.login => PaginaMostrada(session) \in menu_items(session.rol)
    /\ \A i \in 1..Len(results) : results[i].auditor # "supervisor"

\* what a script run of a session that is not logged in shows and does to
\* the session: the login page only; login becomes true only when
\* login_user found the typed credentials in the store, and then the session
\* carries the typed user and the role of the row found
SoloLogin ==
    /\ ultimo'.op \in {"main", "login_user", "mostrar_login"}
    /\ session'.login =>
        /\ ultimo'.op = "login_user"
        /\ ultimo'.ret # <<>>
        /\ ultimo'.ret = login_user(users', ultimo'.user, ultimo'.pwd)
        /\ session'.user = ultimo'.user
        /\ session'.rol = ultimo'.ret[1].rol

\* "Cerrar Sesion" leaves the session not logged in, with empty user and rol
TrasCerrarSesion ==
    ultimo'.op = "cerrar_sesion" =>
        /\ ~session'.login
        /\ session'.user = ""
        /\ session'.rol = ""

\* C26 as stated: a step of a session that is not logged in renders only
\* the login page and changes no row of users, checklist_items or
\* checklist_results; login becomes true only through a successful
\* login_user; "Cerrar Sesion" leaves the session not logged in with empty
\* user and rol.
C26_SinLoginNadaCambia ==
    [][/\ ~session.login =>
            /\ SoloLogin
            /\ users' = users /\ items' = items /\ results' = results
       /\ TrasCerrarSesion]_vars

\* C26, amended: as above, except that the script run of a session that is
\* not logged in seeds the default accounts that are missing from users
\* (crear_usuarios_por_defecto, line 1480); it changes no other row.
C26_SinLoginSoloSiembra ==
    [][/\ ~session.login =>
            /\ SoloLogin
            /\ users' = crear_usuarios_por_defecto(users)
            /\ items' = items /\ results' = results
       /\ TrasCerrarSesion]_vars

\* a session that stored an audit has closed: it is not logged in, and a
\* new login is needed to see any page
C26_Witness ==
    /\ ultimo.op = "cerrar_sesion"
    /\ session = InitSession
    /\ results # <<>>
    /\ crear_usuarios_por_defecto(users) = users

(***************************************************************************)
(* SpecSesiones: two browser sessions run the script at the same time,     *)
(* one store statement per step.  Each run seeds the default users         *)
(* (lines 106-129) and then either logs the administrator in or submits    *)
(* the create-user form (lines 1279-1320).  INSERT opens the connection's  *)
(* transaction, which holds the store's write lock until commit or close;  *)
(* pend are the rows a connection has inserted and not yet committed.      *)
(***************************************************************************)
\* INSERT INTO users on a table whose username column is UNIQUE, without
\* the constraint
insert_user_sin_unique(us, fila) == [ok |-> TRUE, exc |-> "None"]

\* INSERT INTO users (...): username TEXT UNIQUE NOT NULL (line 50) rejects
\* a row whose username is in the table
insert_user(us, fila) ==
    IF FilasDeUsuario(us, fila.username) # <<>>
    THEN [ok |-> FALSE, exc |-> "sqlite3.IntegrityError"]
    ELSE [ok |-> TRUE, exc |-> "None"]

\* another connection holds the write lock
Bloqueado(s) == \E t \in Sesiones \ {s} : hilos[t].pend # <<>>

\* what a run is started with: the login form of the administrator, or the
\* create-user form filled in validly
EntradasSesion ==
    {[tipo |-> "login"]}
    \cup {[tipo |-> "crear", username |-> "ana", password |-> "nueva456", rol |-> r] :
            r \in {"auditor", "admin"}}

\* a script run starts: init_db(), then crear_usuarios_por_defecto() opens
\* its connection
SsIniciar(s, entrada) ==
    /\ hilos[s].en = "reposo"
    /\ entrada.tipo = "crear" => hilos[s].admin
    /\ hilos' = [hilos EXCEPT ![s] = [en |-> "seed_select", k |-> 1, pend |-> <<>>,
                                      entrada |-> entrada, admin |-> hilos[s].admin]]
    /\ fs' = init_db(Bd(fs, users, items, results)).fs
    /\ ultimo' = [op |-> "init_db", sesion |-> s, ret |-> "None"]
    /\ UNCHANGED <<now, users, items, results, session, form>>

\* crear_usuarios_por_defecto(): SELECT * FROM users WHERE username=? for
\* the k-th default user
SsSeedSelect(s) ==
    /\ hilos[s].en = "seed_select"
    /\ hilos[s].k <= Len(usuarios_default)
    /\ LET existe == FilasDeUsuario(users \o hilos[s].pend,
                                    usuarios_default[hilos[s].k].username) # <<>>
       IN hilos' = [hilos EXCEPT ![s] =
                        IF existe THEN [@ EXCEPT !.k = @ + 1]
                        ELSE [@ EXCEPT !.en = "seed_insert"]]
    /\ ultimo' = [op |-> "crear_usuarios_por_defecto", sesion |-> s, ret |-> "select"]
    /\ UNCHANGED <<now, fs, users, items, results, session, form>>

\* crear_usuarios_por_defecto(): INSERT INTO users for the k-th default user;
\* an exception leaves through finally: conn.close(), which drops pend
SsSeedInsert(s) ==
    /\ hilos[s].en = "seed_insert"
    /\ ~Bloqueado(s)
    /\ LET d == usuarios_default[hilos[s].k]
           fila == [username |-> d.username, password |-> hash_pass(d.password),
                    rol |-> d.rol]
           r == insert_user(users \o hilos[s].pend, fila)
       IN /\ hilos' = [hilos EXCEPT ![s] =
                          IF r.ok THEN [@ EXCEPT !.en = "seed_select", !.k = @ + 1,
                                                 !.pend = Append(@, fila)]
                          ELSE Reposo(hilos[s].admin)]
          /\ ultimo' = [op |-> "crear_usuarios_por_defecto", sesion |-> s, ret |-> r.exc]
    /\ UNCHANGED <<now, fs, users, items, results, session, form>>

\* an INSERT that waited for the write lock longer than the connection's
\* timeout raises "database is locked"
SsTimeout(s) ==
    /\ hilos[s].en \in {"seed_insert", "cu_insert"}
    /\ Bloqueado(s)
    /\ hilos' = [hilos EXCEPT ![s] = Reposo(hilos[s].admin)]
    /\ ultimo' = [op |-> "insert", sesion |-> s, ret |-> "sqlite3.OperationalError"]
    /\ UNCHANGED <<now, fs, users, items, results, session, form>>

\* crear_usuarios_por_defecto(): conn.commit() after the last default user,
\* then verificar_backup_diario() and main() with the run's input
SsSeedCommit(s) ==
    /\ hilos[s].en = "seed_select"
    /\ hilos[s].k = Len(usuarios_default) + 1
    /\ users' = users \o hilos[s].pend
    /\ fs' = verificar_backup_diario(fs, now).fs
    /\ hilos' = [hilos EXCEPT ![s] =
                    [@ EXCEPT !.en = IF hilos[s].entrada.tipo = "login" THEN "login"
                                    ELSE "cu_select",
                              !.pend = <<>>]]
    /\ ultimo' = [op |-> "crear_usuarios_por_defecto", sesion |-> s, ret |-> "commit"]
    /\ UNCHANGED <<now, items, results, session, form>>

\* mostrar_login(): login_user("admin", "admin123") and data[3]
SsLogin(s) ==
    /\ hilos[s].en = "login"
    /\ LET data == login_user(users, "admin", "admin123")
       IN /\ hilos' = [hilos EXCEPT ![s] = Reposo(data # <<>> /\ data[1].rol = "admin")]
          /\ ultimo' = [op |-> "login_user", sesion |-> s, ret |-> data]
    /\ UNCHANGED <<now, fs, users, items, results, session, form>>

\* pagina_usuarios(): cur.execute("SELECT * FROM users WHERE username=?")
\* and the branch on cur.fetchone()
SsCuSelect(s) ==
    /\ hilos[s].en = "cu_select"
    /\ Len(users) < MaxUsers
    /\ IF FilasDeUsuario(users, hilos[s].entrada.username) # <<>>
       THEN /\ hilos' = [hilos EXCEPT ![s] = Reposo(hilos[s].admin)]
            /\ ultimo' = [op |-> "crear_usuario", sesion |-> s,
                          ret |-> "Este nombre de usuario ya existe"]
       ELSE /\ hilos' = [hilos EXCEPT ![s] = [@ EXCEPT !.en = "cu_insert"]]
            /\ ultimo' = [op |-> "crear_usuario", sesion |-> s, ret |-> "select"]
    /\ UNCHANGED <<now, fs, users, items, results, session, form>>

\* pagina_usuarios(): INSERT INTO users (username, password, rol, created_at)
SsCuInsert(s) ==
    /\ hilos[s].en = "cu_insert"
    /\ ~Bloqueado(s)
    /\ LET e == hilos[s].entrada
           fila == [username |-> e.username, password |-> hash_pass(e.password),
                    rol |-> e.rol]
           r == insert_user(users, fila)
       IN /\ hilos' = [hilos EXCEPT ![s] =
                          IF r.ok THEN [@ EXCEPT !.en = "cu_commit", !.pend = <<fila>>]
                          ELSE Reposo(hilos[s].admin)]
          /\ ultimo' = [op |-> "crear_usuario", sesion |-> s, ret |-> r.exc]
    /\ UNCHANGED <<now, fs, users, items, results, session, form>>

\* pagina_usuarios(): conn.commit() and the success message
SsCuCommit(s) ==
    /\ hilos[s].en = "cu_commit"
    /\ users' = users \o hilos[s].pend
    /\ hilos' = [hilos EXCEPT ![s] = Reposo(hilos[s].admin)]
    /\ ultimo' = [op |-> "crear_usuario", sesion |-> s, ret |-> "Usuario creado exitosamente"]
    /\ UNCHANGED <<now, fs, items, results, session, form>>

NextSesiones ==
    \E s \in Sesiones :
        \/ \E entrada \in EntradasSesion : SsIniciar(s, entrada)
        \/ SsSeedSelect(s)
        \/ SsSeedInsert(s)
        \/ SsTimeout(s)
        \/ SsSeedCommit(s)
        \/ SsLogin(s)
        \/ SsCuSelect(s)
        \/ SsCuInsert(s)
        \/ SsCuCommit(s)

SpecSesiones == InitComun /\ [][NextSesiones]_vars

\* C11: no two rows of table users have the same username, whatever the
\* interleaving of the seeding and create-user statements of two sessions.
C11_UsernameUnico ==
    \A i \in 1..Len(users), j \in 1..Len(users) :
        i # j => users[i].username # users[j].username

\* both sessions found the username free, one committed its row and the
\* other's INSERT was rejected by the store
C11_Witness ==
    /\ ultimo.op = "crear_usuario"
    /\ ultimo.ret = "sqlite3.IntegrityError"
    /\ Len(FilasDeUsuario(users, "ana")) = 1

(***************************************************************************)
(* SpecSinBd: the maintenance functions called when the database file is   *)
(* not there (it was moved or removed after the backups were taken), at    *)
(* every instant and over every set of at most two backups.                *)
(***************************************************************************)
FsSinBd ==
    {InitFs}
    \cup {[InitFs EXCEPT !.dir = TRUE, !.backups = B, !.log = Cardinality(B)] :
            B \in {{Timestamp(a), Timestamp(b)} : a \in 0..MaxInstante, b \in 0..MaxInstante}
                  \cup {{}}}

InitSinBd ==
    /\ now \in 0..MaxInstante
    /\ fs \in FsSinBd
    /\ ultimo = NoOp
    /\ users = <<>>
    /\ items = <<>>
    /\ results = <<>>
    /\ session = InitSession
    /\ hilos = InitHilos
    /\ form = InitForm

\* a call of hacer_backup_bd()
SbHacerBackup ==
    /\ ultimo = NoOp
    /\ LET r == hacer_backup_bd(fs, now)
       IN /\ fs' = r.fs
          /\ ultimo' = [op |-> "hacer_backup_bd", ret |-> IF r.ok THEN "True" ELSE "False"]
    /\ UNCHANGED <<now, varsNoFs>>

\* a call of verificar_backup_diario()
SbVerificarBackup ==
    /\ ultimo = NoOp
    /\ LET r == verificar_backup_diario(fs, now)
       IN /\ fs' = r.fs
          /\ ultimo' = [op |-> "verificar_backup_diario",
                        ret |-> IF r.ret THEN "True" ELSE "False"]
    /\ UNCHANGED <<now, varsNoFs>>

NextSinBd == SbHacerBackup \/ SbVerificarBackup

SpecSinBd == InitSinBd /\ [][NextSinBd]_vars

\* C17: hacer_backup_bd() without a database file returns failure and leaves
\* the files as they were: no backup file more or less, no directory made.
C17_SinBdNoHaceNada ==
    [][(ultimo'.op = "hacer_backup_bd" /\ ~fs.db) =>
        /\ ultimo'.ret = "False"
        /\ fs'.backups = fs.backups
        /\ fs'.dir = fs.dir
        /\ fs' = fs]_vars

\* the call failed over two backups, which are still there
C17_Witness ==
    /\ ultimo.op = "hacer_backup_bd"
    /\ ultimo.ret = "False"
    /\ ~fs.db
    /\ Cardinality(fs.backups) = 2

\* C27: verificar_backup_diario() returns True if and only if the call
\* created a backup file dated today that was not there before; when it
\* returns True a backup dated today exists afterwards, and when it returns
\* False the backup directory is as it was.
C27_TrueSiiBackupNuevo ==
    [][(ultimo'.op = "verificar_backup_diario" /\ now' = now) =>
        LET nuevos == {b \in fs'.backups \ fs.backups : b[1] = Hoy(now)}
        IN /\ ultimo'.ret = "True" <=> nuevos # {}
           /\ ultimo'.ret = "True" => BackupsDeHoy(fs', now) # {}
           /\ ultimo'.ret = "False" =>
                fs'.backups = fs.backups /\ fs'.dir = fs.dir]_vars

(***************************************************************************)
(* SpecDiario: one session at a time, of any role or of none, while the    *)
(* clock runs over several days.  Every interaction is a run of the        *)
(* script, whose first lines call verificar_backup_diario().               *)
(***************************************************************************)
NextDiario ==
    \/ CargarPagina
    \/ \E c \in IntentosAuditoria : Login(c[1], c[2])
    \/ \E pagina \in Paginas : Navegar(pagina)
    \/ CerrarSesion
    \/ BackupManual
    \/ BotonBackupDiario
    \/ Tick

SpecDiario == InitComun /\ [][NextDiario]_vars

\* C18: a step that adds a backup file is a run of an administrator's
\* session (logged in as admin before the step or by it); the page loads and
\* actions of visitors who are not logged in, of auditors and of supervisors
\* add no backup file.
C18_SoloAdminRespalda ==
    [][(fs'.backups \ fs.backups) # {} =>
        \/ session.login /\ session.rol = "admin"
        \/ session'.login /\ session'.rol = "admin"]_vars

(***************************************************************************)
(* pagina_historico(): the read of checklist_results and the filter block. *)
(***************************************************************************)
\* pd.to_datetime(df["fecha"]) and .dt.date: the date of the stored text
to_datetime(texto) == texto[2]

\* row i comes before row k in ORDER BY fecha DESC (equal dates in rowid order)
AntesHistorico(res, i, k) ==
    \/ to_datetime(res[i].fecha) > to_datetime(res[k].fecha)
    \/ res[i].fecha = res[k].fecha /\ i < k

\* pd.read_sql("SELECT ... FROM checklist_results ORDER BY fecha DESC") and
\* df["fecha"] = pd.to_datetime(df["fecha"])
leer_historico(res) ==
    [j \in 1..Len(res) |->
        LET i == CHOOSE i \in 1..Len(res) :
                    Cardinality({k \in 1..Len(res) : AntesHistorico(res, k, i)}) = j - 1
        IN [res[i] EXCEPT !.fecha = to_datetime(@)]]

\* the date filter with the end of the range left out
filtrar_rango_abierto(df, area_filtro, rango_fechas, auditor_filtro) ==
    LET df1 == IF area_filtro # "Todas"
               THEN SelectSeq(df, LAMBDA r : r.area = area_filtro) ELSE df
        df2 == IF Len(rango_fechas) = 2
               THEN SelectSeq(df1, LAMBDA r : r.fecha >= rango_fechas[1]
                                              /\ r.fecha < rango_fechas[2])
               ELSE IF Len(rango_fechas) = 1
               THEN SelectSeq(df1, LAMBDA r : r.fecha = rango_fechas[1])
               ELSE df1
    IN IF auditor_filtro # "Todos"
       THEN SelectSeq(df2, LAMBDA r : r.auditor = auditor_filtro) ELSE df2

\* "Aplicar filtros": the three filters one after the other
filtrar(df, area_filtro, rango_fechas, auditor_filtro) ==
    LET df1 == IF area_filtro # "Todas"
               THEN SelectSeq(df, LAMBDA r : r.area = area_filtro) ELSE df
        df2 == IF Len(rango_fechas) = 2
               THEN SelectSeq(df1, LAMBDA r : r.fecha >= rango_fechas[1]
                                              /\ r.fecha <= rango_fechas[2])
               ELSE IF Len(rango_fechas) = 1
               THEN SelectSeq(df1, LAMBDA r : r.fecha = rango_fechas[1])
               ELSE df1
    IN IF auditor_filtro # "Todos"
       THEN SelectSeq(df2, LAMBDA r : r.auditor = auditor_filtro) ELSE df2

(***************************************************************************)
(* SpecFiltro: the history page rendered once over every table of at most  *)
(* MaxFilasHistorico rows, with every choice the three filter widgets      *)
(* offer for that table.                                                   *)
(***************************************************************************)
FilasHistorico ==
    {[fecha |-> FechaTexto(d), area |-> a, auditor |-> u, categoria |-> "Calidad",
      item |-> "Extintores", puntaje |-> 1, observacion |-> ""] :
        d \in 1..MaxFecha, a \in {"Planta", "Almacen"}, u \in {"admin", "auditor"}}

TablasHistorico == UNION {[1..n -> FilasHistorico] : n \in 1..MaxFilasHistorico}

\* st.date_input over a range: nothing, one date or two dates in order,
\* between the earliest and the latest date of the table
RangosDeFechas(res) ==
    LET fechas == {to_datetime(res[i].fecha) : i \in 1..Len(res)}
        dias == {d \in 1..MaxFecha : (\E f \in fechas : f <= d) /\ (\E f \in fechas : d <= f)}
    IN {<<>>} \cup {<<d>> : d \in dias}
       \cup {par \in dias \X dias : par[1] <= par[2]}

InitFiltro ==
    /\ now = 0
    /\ fs = init_db(Bd(InitFs, <<>>, <<>>, <<>>)).fs
    /\ ultimo = NoOp
    /\ users = crear_usuarios_por_defecto(<<>>)
    /\ items = <<>>
    /\ results \in TablasHistorico
    /\ session = [login |-> TRUE, user |-> "auditor", rol |-> "auditor",
                  current_page |-> "historico"]
    /\ hilos = InitHilos
    /\ \E area_filtro \in {"Todas"} \cup {results[i].area : i \in 1..Len(results)},
          auditor_filtro \in {"Todos"} \cup {results[i].auditor : i \in 1..Len(results)},
          rango_fechas \in RangosDeFechas(results) :
            form = [fase |-> "filtros", area_filtro |-> area_filtro,
                    rango_fechas |-> rango_fechas, auditor_filtro |-> auditor_filtro]

\* pagina_historico(): the read, the conversion of the dates and the filters
FtFiltrar ==
    /\ form.fase = "filtros"
    /\ PaginaMostrada(session) = "historico"
    /\ LET df == filtrar(leer_historico(results), form.area_filtro, form.rango_fechas,
                         form.auditor_filtro)
       IN /\ form' = [form EXCEPT !.fase = "filtrado"] @@ [df |-> df]
          /\ ultimo' = [op |-> "pagina_historico",
                        ret |-> IF df = <<>> THEN "No hay datos con los filtros seleccionados"
                                ELSE "None"]
    /\ UNCHANGED <<now, fs, users, items, results, session, hilos>>

NextFiltro == FtFiltrar

SpecFiltro == InitFiltro /\ [][NextFiltro]_vars

\* the row with its date read (stored as text)
FilaLeida(r) == [r EXCEPT !.fecha = to_datetime(@)]

\* the condition of C19 on a stored row r under the filters of f
PasaFiltros(r, f) ==
    /\ f.area_filtro = "Todas" \/ r.area = f.area_filtro
    /\ f.auditor_filtro = "Todos" \/ r.auditor = f.auditor_filtro
    /\ Len(f.rango_fechas) = 2 =>
            f.rango_fechas[1] <= to_datetime(r.fecha) /\ to_datetime(r.fecha) <= f.rango_fechas[2]
    /\ Len(f.rango_fechas) = 1 => to_datetime(r.fecha) = f.rango_fechas[1]

\* C19: the filtered rows are exactly the stored rows that pass the area
\* filter (or the filter is Todas), the auditor filter (or it is Todos) and
\* the date range, ends included (one date: that date): each such row as
\* many times as it is stored, no other row, and the table is not changed.
C19_FiltroExacto ==
    [][form'.fase = "filtrado" =>
        /\ results' = results
        /\ \A i \in 1..Len(results) :
            Cardinality({j \in 1..Len(form'.df) : form'.df[j] = FilaLeida(results[i])})
            = IF PasaFiltros(results[i], form)
              THEN Cardinality({k \in 1..Len(results) : results[k] = results[i]})
              ELSE 0
        /\ \A j \in 1..Len(form'.df) :
            \E i \in 1..Len(results) : form'.df[j] = FilaLeida(results[i])]_vars

\* a range of two dates kept the row dated at its end and dropped the other
C19_Witness ==
    /\ form.fase = "filtrado"
    /\ Len(form.rango_fechas) = 2
    /\ form.rango_fechas[1] < form.rango_fechas[2]
    /\ Len(results) = 2
    /\ Len(form.df) = 1
    /\ form.df[1].fecha = form.rango_fechas[2]
    /\ form.area_filtro # "Todas"

(***************************************************************************)
(* SpecInitDb: init_db() called up to MaxLlamadasInit times in a row on a  *)
(* database that holds any of the three tables (a first start, a start     *)
(* after a run that stopped between two CREATE TABLE statements, a start   *)
(* over a filled database), with no rows, some rows or more rows in each.  *)
(***************************************************************************)
FilaItem(c) == [categoria |-> c, item |-> "Extintores", puntaje_max |-> 1]

FilaResultado(u) ==
    [fecha |-> FechaTexto(1), area |-> "Planta", auditor |-> u, categoria |-> "Calidad",
     item |-> "Extintores", puntaje |-> 1, observacion |-> ""]

InitInitDb ==
    /\ now = 0
    /\ \E t \in SUBSET Tablas, db \in BOOLEAN :
        /\ t # {} => db
        /\ fs = [InitFs EXCEPT !.db = db, !.tablas = t]
        /\ users \in IF "users" \in t
                     THEN {<<>>, crear_usuarios_por_defecto(<<>>),
                           Append(crear_usuarios_por_defecto(<<>>),
                                  [username |-> "ana", password |-> hash_pass("nueva456"),
                                   rol |-> "auditor"])}
                     ELSE {<<>>}
        /\ items \in IF "checklist_items" \in t
                     THEN {<<>>, <<FilaItem("Calidad")>>,
                           <<FilaItem("Seguridad"), FilaItem("Calidad")>>}
                     ELSE {<<>>}
        /\ results \in IF "checklist_results" \in t
                       THEN {<<>>, <<FilaResultado("admin")>>,
                             <<FilaResultado("auditor"), FilaResultado("auditor")>>}
                       ELSE {<<>>}
    /\ ultimo = NoOp
    /\ session = InitSession
    /\ hilos = InitHilos
    /\ form = InitForm

\* a call of init_db()
IdInitDb ==
    /\ LET n == IF ultimo.op = "init_db" THEN ultimo.llamadas + 1 ELSE 1
           r == init_db(Bd(fs, users, items, results))
       IN /\ n <= MaxLlamadasInit
          /\ fs' = r.fs
          /\ users' = r.users
          /\ items' = r.items
          /\ results' = r.results
          /\ ultimo' = [op |-> "init_db", ret |-> "None", llamadas |-> n]
    /\ UNCHANGED <<now, session, form, hilos>>

NextInitDb == IdInitDb

SpecInitDb == InitInitDb /\ [][NextInitDb]_vars

\* C20: a call of init_db() leaves the rows of users, checklist_items and
\* checklist_results as they were, the three tables exist after it, and a
\* call after the first changes nothing at all.
C20_InitDbIdempotente ==
    [][ultimo'.op = "init_db" =>
        /\ users' = users
        /\ items' = items
        /\ results' = results
        /\ fs'.db
        /\ fs'.tablas = Tablas
        /\ ultimo.op = "init_db" => fs' = fs]_vars

\* init_db() ran twice over a database with rows in its three tables
C20_Witness ==
    /\ ultimo.op = "init_db"
    /\ ultimo.llamadas = 2
    /\ Len(users) = 4
    /\ Len(items) = 2
    /\ Len(results) = 2

(***************************************************************************)
(* SpecEnvios: two browser sessions submit the checklist form at the same  *)
(* time over the same catalog, one store statement per step (lines         *)
(* 593-634).  Each submission has its own connection (get_connection,      *)
(* lines 38-40, with sqlite3's default timeout); its first INSERT opens    *)
(* the transaction and takes the store's write lock, which it holds until  *)
(* conn.commit() or conn.close().                                          *)
(***************************************************************************)
\* the catalogs of the sessions' snapshot: n items, of alternating category
CatalogosEnvio ==
    {[j \in 1..n |-> [categoria |-> IF j % 2 = 1 THEN "Calidad" ELSE "Seguridad",
                      item |-> "Extintores", puntaje_max |-> MaxPuntaje]] :
        n \in 1..MaxItems}

\* the scores chosen in the select boxes of a form over such a catalog
PuntajesEnvio == UNION {[1..n -> 0..MaxPuntaje] : n \in 1..MaxItems}

\* st.session_state.user of each session
UsuarioDe(s) == IF s = "A" THEN "auditor" ELSE "admin"

InitEnvios ==
    /\ now = 0
    /\ fs = init_db(Bd(InitFs, <<>>, <<>>, <<>>)).fs
    /\ users = crear_usuarios_por_defecto(<<>>)
    /\ items \in CatalogosEnvio
    /\ results = <<>>
    /\ ultimo = NoOp
    /\ session = InitSession
    /\ form = InitForm
    /\ hilos = InitHilos

\* the rows of the INSERT loop of session s, in the order of the loop
FilasDeEnvio(s) ==
    LET e == hilos[s].entrada
    IN insertar_hasta(<<>>, e.respuestas, e.fecha, e.area, UsuarioDe(s), Len(e.respuestas))

\* "Guardar Auditoria" pressed in session s: respuestas were built from the
\* catalog read at lines 494-498; conn = get_connection()
EvIniciar(s, ps) ==
    /\ hilos[s].en = "reposo"
    /\ DOMAIN ps = 1..Len(items)
    /\ \A j \in 1..Len(items) : ps[j] \in opciones_puntaje(read_items(items)[j])
    /\ hilos' = [hilos EXCEPT ![s] =
                    [en |-> "env_insert", k |-> 1, pend |-> <<>>,
                     entrada |-> [tipo |-> "auditoria", area |-> "Planta", fecha |-> 1,
                                  respuestas |-> Respuestas(items, ps)],
                     admin |-> hilos[s].admin]]
    /\ ultimo' = [op |-> "pagina_checklist", sesion |-> s, ret |-> "connect"]
    /\ UNCHANGED <<now, fs, users, items, results, session, form>>

\* the k-th cur.execute("INSERT INTO checklist_results ...") of the loop
EvInsert(s) ==
    /\ hilos[s].en = "env_insert"
    /\ ~Bloqueado(s)
    /\ LET n == Len(hilos[s].entrada.respuestas)
           k == hilos[s].k
       IN hilos' = [hilos EXCEPT ![s] =
                        [@ EXCEPT !.en = IF k = n THEN "env_commit" ELSE "env_insert",
                                  !.k = k + 1,
                                  !.pend = Append(hilos[s].pend, FilasDeEnvio(s)[k])]]
    /\ ultimo' = [op |-> "pagina_checklist", sesion |-> s, ret |-> "insert"]
    /\ UNCHANGED <<now, fs, users, items, results, session, form>>

\* the first INSERT waited for the write lock longer than the connection's
\* timeout: sqlite3.OperationalError "database is locked" leaves the handler
\* through finally: conn.close()
EvTimeout(s) ==
    /\ hilos[s].en = "env_insert"
    /\ Bloqueado(s)
    /\ hilos' = [hilos EXCEPT ![s] =
                    [@ EXCEPT !.en = "fallida",
                              !.pend = conn_close(<<>>, hilos[s].pend)]]
    /\ ultimo' = [op |-> "pagina_checklist", sesion |-> s,
                  ret |-> "sqlite3.OperationalError"]
    /\ UNCHANGED <<now, fs, users, items, results, session, form>>

\* conn.commit() after the loop, then the success message
EvCommit(s) ==
    /\ hilos[s].en = "env_commit"
    /\ results' = results \o hilos[s].pend
    /\ hilos' = [hilos EXCEPT ![s] = [@ EXCEPT !.en = "guardada", !.pend = <<>>]]
    /\ ultimo' = [op |-> "pagina_checklist", sesion |-> s, ret |-> "Auditoria guardada"]
    /\ UNCHANGED <<now, fs, users, items, session, form>>

NextEnvios ==
    \E s \in Sesiones :
        \/ \E ps \in PuntajesEnvio : EvIniciar(s, ps)
        \/ EvInsert(s)
        \/ EvTimeout(s)
        \/ EvCommit(s)

SpecEnvios == InitEnvios /\ [][NextEnvios]_vars

NextPuntajes ==
    \/ CargarPagina
    \/ Login("admin", "admin123")
    \/ \E pagina \in {"checklist", "administrar"} : Navegar(pagina)
    \/ CerrarSesion
    \/ \E ps \in UNION {[1..n -> 0..MaxPuntajeCatalogo] : n \in 1..MaxItems} :
            GuardarAuditoria("Planta", 1, ps, 0)
    \/ \E puntaje \in 1..MaxPuntajeCatalogo :
            AgregarItem("Calidad", "Extintores", puntaje, "ninguna")
    \/ \E j \in 1..MaxItems, new_puntaje \in 1..MaxPuntajeCatalogo :
            GuardarCambios(j, "Calidad", "Extintores", new_puntaje, "ninguna")

SpecPuntajes == InitComun /\ [][NextPuntajes]_vars

\* C23: every step that writes checklist_results appends one row per item
\* of the catalog as it is at that submission, and the score of each row is
\* between 0 and the puntaje_max of its item in that catalog; the rows
\* stored before are not changed.
C23_PuntajeEnRango ==
    [][results' # results =>
        LET df == read_items(items)
            n == Len(results)
        IN /\ Len(results') = n + Len(df)
           /\ SubSeq(results', 1, n) = results
           /\ \A j \in 1..Len(df) :
                /\ results'[n + j].categoria = df[j].categoria
                /\ results'[n + j].item = df[j].item
                /\ results'[n + j].puntaje \in 0..df[j].puntaje_max]_vars

\* an audit over two items of maximum 1 and 3 was stored with both items
\* at their maximum
C23_Witness ==
    /\ AuditoriaGuardada(ultimo)
    /\ Len(items) = 2 /\ Len(results) = 2
    /\ items[1].puntaje_max = 1 /\ items[2].puntaje_max = 3
    /\ results[1].puntaje = 1 /\ results[2].puntaje = 3

(***************************************************************************)
(* SpecConexiones: the store connections of init_db (lines 42-86),         *)
(* login_user (lines 94-104) and the submit handler of pagina_checklist    *)
(* (lines 593-634) when a store call raises.  An operation is              *)
(* conn = get_connection(); statements; commit; conn.close(), with the     *)
(* close inside finally or not.                                            *)
(***************************************************************************)
\* where a store call of the operation raises, if one does
FallasConexion == {"ninguna", "connect", "execute", "commit"}

\* the connections an operation leaves open when it ends: the connection
\* exists once get_connection() has returned, and conn.close() runs when
\* control reaches it, which a finally clause makes certain
abiertas_tras(con_finally, falla) ==
    LET abierta == falla # "connect"
        cierra == con_finally \/ falla = "ninguna"
    IN IF abierta /\ ~cierra THEN 1 ELSE 0

\* init_db(): conn.close() (line 85) is the last statement of a body with
\* no try
init_db_abiertas(falla) == abiertas_tras(FALSE, falla)

\* login_user(): try: ... finally: conn.close()
login_user_abiertas(falla) == abiertas_tras(TRUE, falla)

\* pagina_checklist(): try: ... finally: conn.close() (lines 594-634)
pagina_checklist_abiertas(falla) == abiertas_tras(TRUE, falla)

InitConexiones ==
    /\ now = 0
    /\ \E instalada \in BOOLEAN :
        /\ fs = IF instalada THEN init_db(Bd(InitFs, <<>>, <<>>, <<>>)).fs ELSE InitFs
        /\ users = IF instalada THEN crear_usuarios_por_defecto(<<>>) ELSE <<>>
        /\ items = IF instalada THEN <<FilaItem("Calidad")>> ELSE <<>>
    /\ results = <<>>
    /\ ultimo = NoOp
    /\ session = InitSession
    /\ hilos = InitHilos
    /\ form = [fase |-> "conexiones", abiertas |-> 0]

\* a script run whose init_db() call raises at `falla` (a statement can
\* raise only on a database file that exists); the run ends there
CxInitDb(falla) ==
    /\ falla # "ninguna"
    /\ falla # "connect" => fs.db
    /\ form.abiertas + init_db_abiertas(falla) <= MaxAbiertas
    /\ form' = [form EXCEPT !.abiertas = @ + init_db_abiertas(falla)]
    /\ ultimo' = [op |-> "init_db", falla |-> falla, ret |-> "sqlite3.Error"]
    /\ UNCHANGED <<now, fs, users, items, results, session, hilos>>

\* a script run that submits the login form; login_user raises at `falla`
\* or returns
CxLogin(user, pwd, falla) ==
    /\ ~session.login
    /\ falla # "commit"
    /\ users' = UsersRun
    /\ fs' = FsRun
    /\ form' = [form EXCEPT !.abiertas = @ + init_db_abiertas("ninguna")
                                           + login_user_abiertas(falla)]
    /\ IF falla = "ninguna"
       THEN LET data == login_user(UsersRun, user, pwd)
            IN /\ ultimo' = [op |-> "login_user", user |-> user, pwd |-> pwd,
                             falla |-> falla, ret |-> data]
               /\ session' = IF data # <<>>
                             THEN [login |-> TRUE, user |-> user, rol |-> data[1].rol,
                                   current_page |-> "checklist"]
                             ELSE session
       ELSE /\ ultimo' = [op |-> "login_user", user |-> user, pwd |-> pwd,
                          falla |-> falla, ret |-> <<"sqlite3.Error">>]
            /\ session' = session
    /\ UNCHANGED <<now, items, results, hilos>>

\* a script run that submits the checklist form; the k-th INSERT or the
\* commit raises, or none does
CxGuardarAuditoria(ps, falla) ==
    /\ session.login
    /\ PaginaMostrada(session) = "checklist"
    /\ items # <<>>
    /\ DOMAIN ps = 1..Len(items)
    /\ \A j \in 1..Len(items) : ps[j] \in opciones_puntaje(read_items(items)[j])
    /\ falla \in 0..(Len(items) + 1)
    /\ Len(results) + Len(items) <= MaxResults
    /\ users' = UsersRun
    /\ fs' = FsRun
    /\ form' = [form EXCEPT !.abiertas =
                    @ + init_db_abiertas("ninguna")
                      + pagina_checklist_abiertas(IF falla = 0 THEN "ninguna"
                                                  ELSE IF falla > Len(items) THEN "commit"
                                                  ELSE "execute")]
    /\ LET s == submit_auditoria(results, Respuestas(items, ps), 1, "Planta",
                                 session.user, falla)
       IN /\ results' = s.results
          /\ ultimo' = [op |-> "pagina_checklist", area |-> "Planta", fecha |-> 1,
                        puntajes |-> ps, falla |-> falla,
                        ret |-> IF s.exc # "None" THEN s.exc ELSE "Auditoria guardada"]
    /\ UNCHANGED <<now, items, session, hilos>>

NextConexiones ==
    \/ \E falla \in FallasConexion : CxInitDb(falla)
    \/ \E c \in IntentosAuditoria, falla \in FallasConexion : CxLogin(c[1], c[2], falla)
    \/ \E ps \in UNION {[1..n -> 0..MaxPuntaje] : n \in 1..MaxItems},
          falla \in 0..(MaxItems + 1) : CxGuardarAuditoria(ps, falla)
    \/ CerrarSesion

SpecConexiones == InitConexiones /\ [][NextConexiones]_vars

\* C24: when an operation has ended, normally or with an error, the
\* connections it opened are closed: no connection is open between
\* operations.
C24_ConexionesCerradas == form.fase = "conexiones" => form.abiertas = 0

(***************************************************************************)
(* SpecPoda: hacer_backup_bd() called while the clock runs forward, over a *)
(* directory backups/ that may hold files not named auditoria_backup_*.    *)
(***************************************************************************)
\* names of files in backups/ that do not start with 'auditoria_backup_'
OtrosArchivos == {"notas.txt", "backup_auditoria_viejo.db"}

InitPoda ==
    /\ now = 0
    /\ \E O \in SUBSET OtrosArchivos :
        fs = [init_db(Bd(InitFs, <<>>, <<>>, <<>>)).fs EXCEPT !.dir = TRUE, !.otros = O]
    /\ ultimo = NoOp
    /\ users = <<>>
    /\ items = <<>>
    /\ results = <<>>
    /\ session = InitSession
    /\ hilos = InitHilos
    /\ form = InitForm

NextPoda == BkHacerBackup \/ Tick

SpecPoda == InitPoda /\ [][NextPoda]_vars

\* C28: when hacer_backup_bd() returns success, the file it names is in the
\* directory; the files it removed are backups older than every backup it
\* kept, it removes some only when MaxBackups are kept, and it removes no
\* file whose name does not start with 'auditoria_backup_'.
C28_NuevoBackupQueda ==
    [][(ultimo'.op = "hacer_backup_bd" /\ ultimo'.ret = "True" /\ now' = now) =>
        LET borrados == (fs.backups \cup {Timestamp(now)}) \ fs'.backups
        IN /\ Timestamp(now) \in fs'.backups
           /\ fs'.backups \subseteq fs.backups \cup {Timestamp(now)}
           /\ \A b \in borrados : \A g \in fs'.backups : NombreMenor(b, g)
           /\ borrados # {} => Cardinality(fs'.backups) = MaxBackups
           /\ fs'.otros = fs.otros]_vars

\* the eleventh backup was made next to two other files: the oldest backup
\* is gone, the new one and the other files are there
C28_Witness ==
    /\ ultimo.op = "hacer_backup_bd"
    /\ ultimo.ret = "True"
    /\ fs.log = MaxBackups + 1
    /\ Cardinality(fs.backups) = MaxBackups
    /\ Timestamp(now) \in fs.backups
    /\ Timestamp(0) \notin fs.backups
    /\ fs.otros = OtrosArchivos

=============================================================================
